---- MODULE Spec2Model ----
(***************************************************************************)
(* Model of the LunaLock emergency SMS relay (src/app.js): an HTTP server  *)
(* with two POST endpoints that forward a text message to a remote SMS     *)
(* provider, and three process-level handlers that end the process.        *)
(*                                                                         *)
(* JavaScript values are records tagged with their type.  A string is the  *)
(* sequence of its characters; a literal the code never inspects is        *)
(* written as a one-element sequence holding the whole literal.            *)
(* Timestamps and console output are left out.                             *)
(***************************************************************************)
EXTENDS Integers, Sequences, FiniteSets, TLC

VARIABLES
    requests,   \* per request slot: handler position, body, provider calls, responses
    proc,       \* "running" or "exited"
    exitCode,   \* the status passed to process.exit, -1 while running
    exitCause   \* the process event whose handler called process.exit

vars == <<requests, proc, exitCode, exitCause>>

----------------------------------------------------------------------------
(* Bounds *)

\* number of requests the server handles in one run
NumReq == 2

\* longest digit run of a generated phone number
MaxDigits == 11

Reqs == 1..NumReq

----------------------------------------------------------------------------
(* JavaScript values *)

Undefined == [t |-> "undefined"]
Str(s) == [t |-> "string", s |-> s]
Num(n) == [t |-> "number", n |-> n]

\* ToBoolean, as used by `!v`, `v || d` and `if (v)`
Truthy(v) ==
    CASE v.t = "undefined" -> FALSE
      [] v.t = "string" -> Len(v.s) > 0
      [] v.t = "number" -> v.n # 0

DigitChars == <<"0", "1", "2", "3", "4", "5", "6", "7", "8", "9">>

IsDigit(c) == \E i \in 1..Len(DigitChars) : DigitChars[i] = c

\* s.replace(/\D/g, '')
StripNonDigits(s) == SelectSeq(s, IsDigit)

\* s.startsWith('+')
StartsWithPlus(s) == Len(s) > 0 /\ s[1] = "+"

\* const twilioPhoneNumber = process.env.TWILIO_PHONE_NUMBER
twilioPhoneNumber == Str(<<"+", "1", "5", "5", "5", "0", "0", "0", "0", "0", "0", "0">>)

\* the body of the test endpoint's message
testMessage == Str(<<"This is a test message from your LunaLock emergency system.">>)

----------------------------------------------------------------------------
(* Phone number normalisation of the emergency endpoint *)

\* prepends "+" where the code prepends "+1"
cleanPhoneNumberNoCountryCode(to) == <<"+">> \o StripNonDigits(to)

\* takes every number of 10 or more digits for a domestic one
cleanPhoneNumberTenOrMore(to) ==
    LET stripped == StripNonDigits(to)
    IN  IF Len(stripped) >= 10 THEN <<"+", "1">> \o stripped ELSE <<"+">> \o stripped

\* let cleanPhoneNumber = to.replace(/\D/g, ''); if ... else if ...
cleanPhoneNumber(to) ==
    LET stripped == StripNonDigits(to)
    IN  IF Len(stripped) = 10
        THEN <<"+", "1">> \o stripped
        ELSE IF ~StartsWithPlus(stripped)
             THEN <<"+">> \o stripped
             ELSE stripped

----------------------------------------------------------------------------
(* Requests, provider outcomes, responses *)

Pending == [k |-> "pending"]
Resolved(sid, status) == [k |-> "resolved", sid |-> sid, status |-> status]
Rejected(code, message) == [k |-> "rejected", error |-> [code |-> code, message |-> message]]

\* what client.messages.create can settle with: {sid, status}, or an error
\* object carrying a message and possibly a code
ProviderOutcomes ==
    { Resolved(Str(<<"SM123">>), Str(<<"queued">>)) }
    \cup { Rejected(c, Str(<<"The 'To' number is not a valid phone number.">>)) :
             c \in {Undefined, Num(0), Num(21211)} }

\* the TypeError of calling .replace on a value that has no such method
ReplaceTypeError == [code |-> Undefined, message |-> Str(<<"to.replace is not a function">>)]

NoBody == [to |-> Undefined, message |-> Undefined]

Idle ==
    [pc |-> "idle", endpoint |-> "none", body |-> NoBody,
     calls |-> <<>>, outcome |-> Pending, responses |-> <<>>]

\* values of the `to` field of a request body
ToValues ==
    { Undefined, Str(<<>>), Num(7),
      Str(<<"5", "5", "5", "1", "2", "3", "4", "5", "6", "7">>),
      Str(<<"+", "4", "4", "1", "2", "3">>) }

MessageValues == { Undefined, Str(<<>>), Str(<<"help">>) }

EmergencyBodies == [to : ToValues, message : MessageValues]

TestBodies == [to : ToValues, message : {Undefined}]

----------------------------------------------------------------------------
(* POST /send-emergency-sms *)

\* rejects a body only when both fields are missing
MissingFieldsBoth(body) == ~Truthy(body.to) /\ ~Truthy(body.message)

\* if (!to || !message)
MissingFields(body) == ~Truthy(body.to) \/ ~Truthy(body.message)

MissingFieldsResponse ==
    [http |-> 400, success |-> FALSE,
     error |-> Str(<<"Missing required fields: to, message">>)]

\* hands the provider the number as it came
EmergencyCallArgsRaw(body) ==
    [body |-> body.message, from |-> twilioPhoneNumber, to |-> body.to]

\* the argument of client.messages.create
EmergencyCallArgs(body) ==
    [body |-> body.message, from |-> twilioPhoneNumber,
     to |-> Str(cleanPhoneNumber(body.to.s))]

\* res.json({ success: true, ... })
EmergencySuccess(result, args) ==
    [http |-> 200, success |-> TRUE, messageSid |-> result.sid,
     status |-> result.status, to |-> args.to]

\* the catch block: res.status(500).json({ ... })
EmergencyCatch(error) ==
    [http |-> 500, success |-> FALSE, error |-> error.message,
     code |-> IF Truthy(error.code) THEN error.code ELSE Str(<<"UNKNOWN_ERROR">>)]

\* the handler up to its await: validation, normalisation, the provider call
SendEmergencySms(r, body) ==
    /\ proc = "running"
    /\ requests[r].pc = "idle"
    /\ LET req == [requests[r] EXCEPT !.endpoint = "emergency", !.body = body]
       IN  requests' = [requests EXCEPT ![r] =
             IF MissingFields(body)
             THEN [req EXCEPT !.pc = "done",
                              !.responses = Append(@, MissingFieldsResponse)]
             ELSE IF body.to.t # "string"
             THEN [req EXCEPT !.pc = "done",
                              !.responses = Append(@, EmergencyCatch(ReplaceTypeError))]
             ELSE [req EXCEPT !.pc = "awaiting",
                              !.calls = Append(@, EmergencyCallArgs(body))]]
    /\ UNCHANGED <<proc, exitCode, exitCause>>

\* the handler after its await: the success response, or the catch block
EmergencyResume(r) ==
    /\ proc = "running"
    /\ requests[r].pc = "settled"
    /\ requests[r].endpoint = "emergency"
    /\ LET req == requests[r]
       IN  requests' = [requests EXCEPT ![r] =
             [req EXCEPT !.pc = "done",
                         !.responses = Append(@,
                            IF req.outcome.k = "resolved"
                            THEN EmergencySuccess(req.outcome, req.calls[Len(req.calls)])
                            ELSE EmergencyCatch(req.outcome.error))]]
    /\ UNCHANGED <<proc, exitCode, exitCause>>

----------------------------------------------------------------------------
(* POST /test-sms *)

\* if (!to)
MissingTo(body) == ~Truthy(body.to)

MissingToResponse ==
    [http |-> 400, success |-> FALSE, error |-> Str(<<"Phone number required">>)]

\* normalises the number as the emergency endpoint does
TestCallArgsNormalised(body) ==
    [body |-> testMessage, from |-> twilioPhoneNumber,
     to |-> IF body.to.t = "string" THEN Str(cleanPhoneNumber(body.to.s)) ELSE body.to]

TestCallArgs(body) ==
    [body |-> testMessage, from |-> twilioPhoneNumber, to |-> body.to]

TestSuccess(result) ==
    [http |-> 200, success |-> TRUE, messageSid |-> result.sid,
     message |-> Str(<<"Test SMS sent successfully">>)]

TestCatch(error) ==
    [http |-> 500, success |-> FALSE, error |-> error.message]

TestSms(r, body) ==
    /\ proc = "running"
    /\ requests[r].pc = "idle"
    /\ LET req == [requests[r] EXCEPT !.endpoint = "test", !.body = body]
       IN  requests' = [requests EXCEPT ![r] =
             IF MissingTo(body)
             THEN [req EXCEPT !.pc = "done",
                              !.responses = Append(@, MissingToResponse)]
             ELSE [req EXCEPT !.pc = "awaiting",
                              !.calls = Append(@, TestCallArgs(body))]]
    /\ UNCHANGED <<proc, exitCode, exitCause>>

\* keeps the provider's result in a variable shared by all requests: answers
\* with the outcome of the highest slot that has one
TestResumeShared(r) ==
    /\ proc = "running"
    /\ requests[r].pc = "settled"
    /\ requests[r].endpoint = "test"
    /\ LET req == requests[r]
           last == CHOOSE s \in Reqs :
                     /\ requests[s].outcome.k # "pending"
                     /\ \A u \in Reqs : requests[u].outcome.k # "pending" => u <= s
           result == requests[last].outcome
       IN  requests' = [requests EXCEPT ![r] =
             [req EXCEPT !.pc = "done",
                         !.responses = Append(@,
                            IF result.k = "resolved"
                            THEN TestSuccess(result)
                            ELSE TestCatch(result.error))]]
    /\ UNCHANGED <<proc, exitCode, exitCause>>

TestResume(r) ==
    /\ proc = "running"
    /\ requests[r].pc = "settled"
    /\ requests[r].endpoint = "test"
    /\ LET req == requests[r]
       IN  requests' = [requests EXCEPT ![r] =
             [req EXCEPT !.pc = "done",
                         !.responses = Append(@,
                            IF req.outcome.k = "resolved"
                            THEN TestSuccess(req.outcome)
                            ELSE TestCatch(req.outcome.error))]]
    /\ UNCHANGED <<proc, exitCode, exitCause>>

----------------------------------------------------------------------------
(* The provider and the process *)

\* the promise returned by client.messages.create settles
ProviderSettle(r, outcome) ==
    /\ proc = "running"
    /\ requests[r].pc = "awaiting"
    /\ requests' = [requests EXCEPT ![r] =
                      [@ EXCEPT !.pc = "settled", !.outcome = outcome]]
    /\ UNCHANGED <<proc, exitCode, exitCause>>

\* process.exit(code) from the handler of a process event
Exit(code, cause) ==
    /\ proc = "running"
    /\ proc' = "exited"
    /\ exitCode' = code
    /\ exitCause' = cause
    /\ UNCHANGED requests

\* reports the interrupt as a failure
SigintFailure == Exit(1, "SIGINT")

\* process.on('SIGINT', ...)
SIGINT == Exit(0, "SIGINT")

\* process.on('uncaughtException', ...)
uncaughtException == Exit(1, "uncaughtException")

\* process.on('unhandledRejection', ...)
unhandledRejection == Exit(1, "unhandledRejection")

----------------------------------------------------------------------------
(* The server *)

Init ==
    /\ requests = [r \in Reqs |-> Idle]
    /\ proc = "running"
    /\ exitCode = -1
    /\ exitCause = "none"

Emergency == \E r \in Reqs, body \in EmergencyBodies : SendEmergencySms(r, body)
EmergencyDone == \E r \in Reqs : EmergencyResume(r)
Test == \E r \in Reqs, body \in TestBodies : TestSms(r, body)
TestDone == \E r \in Reqs : TestResume(r)
Provider == \E r \in Reqs, o \in ProviderOutcomes : ProviderSettle(r, o)

Next ==
    \/ Emergency
    \/ EmergencyDone
    \/ Test
    \/ TestDone
    \/ Provider
    \/ SIGINT
    \/ uncaughtException
    \/ unhandledRejection

Spec == Init /\ [][Next]_vars

\* the event loop runs the continuation of every settled promise
FairSpec ==
    /\ Spec
    /\ \A r \in Reqs : WF_vars(EmergencyResume(r)) /\ WF_vars(TestResume(r))

----------------------------------------------------------------------------
(* The emergency endpoint on generated phone numbers *)

\* n digits, the i-th being (p * i) mod 10
DigitRun(p, n) == [i \in 1..n |-> DigitChars[((p * i) % 10) + 1]]

\* the separator written after the i-th of n digits in format f:
\* 0 plain, 1 a dash after every third digit, 2 "(ddd) ddd..."
Separator(f, i, n) ==
    IF f = 1 /\ i % 3 = 0 /\ i < n THEN <<"-">>
    ELSE IF f = 2 /\ i = 3 THEN <<")", " ">>
    ELSE <<>>

RECURSIVE Formatted(_, _, _)
Formatted(d, i, f) ==
    IF i > Len(d) THEN <<>>
    ELSE <<d[i]>> \o Separator(f, i, Len(d)) \o Formatted(d, i + 1, f)

PhoneStrings ==
    { pre \o (IF f = 2 THEN <<"(">> ELSE <<>>) \o Formatted(DigitRun(p, n), 1, f) :
        pre \in {<<>>, <<"+">>, <<" ", "+">>},
        f \in 0..2, p \in {1, 3}, n \in 0..MaxDigits }

NormSend ==
    \E to \in PhoneStrings :
        SendEmergencySms(1, [to |-> Str(to), message |-> Str(<<"help">>)])
NormSettle == \E o \in ProviderOutcomes : ProviderSettle(1, o)
NormDone == EmergencyResume(1)

NormNext ==
    \/ NormSend
    \/ NormSettle
    \/ NormDone

NormSpec == Init /\ [][NormNext]_vars

----------------------------------------------------------------------------
(* Vocabulary of the properties *)

\* the digits of s in their original order
RECURSIVE DigitsOf(_)
DigitsOf(s) ==
    IF s = <<>> THEN <<>>
    ELSE (IF Head(s) \in {"0", "1", "2", "3", "4", "5", "6", "7", "8", "9"}
          THEN <<Head(s)>> ELSE <<>>) \o DigitsOf(Tail(s))

AbsentOrEmpty(v) == v.t = "undefined" \/ (v.t = "string" /\ v.s = <<>>)

OnEmergency(r) == requests[r].endpoint = "emergency"
OnTest(r) == requests[r].endpoint = "test"

\* the emergency request in slot r was given the string `to` and got as far
\* as normalising it
Normalised(r) ==
    /\ OnEmergency(r)
    /\ requests[r].body.to.t = "string"
    /\ requests[r].body.to.s # <<>>
    /\ ~AbsentOrEmpty(requests[r].body.message)

----------------------------------------------------------------------------
(* Properties *)

C2_PlusPrefixedKept ==
    \A r \in Reqs : (Normalised(r) /\ StartsWithPlus(requests[r].body.to.s)) =>
        /\ Len(requests[r].calls) = 1
        /\ requests[r].calls[1].to = Str(<<"+">> \o DigitsOf(requests[r].body.to.s))

\* C3: a `to` with exactly 10 digits is normalised to "+1" followed by those
\* digits in their original order.
C3_TenDigits ==
    \A r \in Reqs : (Normalised(r) /\ Len(DigitsOf(requests[r].body.to.s)) = 10) =>
        /\ Len(requests[r].calls) = 1
        /\ requests[r].calls[1].to = Str(<<"+", "1">> \o DigitsOf(requests[r].body.to.s))

C3_Witness ==
    \E r \in Reqs :
        /\ Normalised(r)
        /\ ~StartsWithPlus(requests[r].body.to.s)
        /\ Len(requests[r].body.to.s) > 10
        /\ Len(DigitsOf(requests[r].body.to.s)) = 10
        /\ Len(requests[r].calls) = 1

\* C4: a `to` that does not start with "+" and whose digit count is not 10
\* (zero digits included) is normalised to "+" followed by its digits in their
\* original order.
C4_OtherLengths ==
    \A r \in Reqs :
        (/\ Normalised(r)
         /\ ~StartsWithPlus(requests[r].body.to.s)
         /\ Len(DigitsOf(requests[r].body.to.s)) # 10) =>
            /\ Len(requests[r].calls) = 1
            /\ requests[r].calls[1].to = Str(<<"+">> \o DigitsOf(requests[r].body.to.s))

C4_Witness ==
    \E r \in Reqs :
        /\ Normalised(r)
        /\ ~StartsWithPlus(requests[r].body.to.s)
        /\ Len(DigitsOf(requests[r].body.to.s)) > 10
        /\ Len(requests[r].calls) = 1

C6_FailurePath ==
    \A r \in Reqs : (OnEmergency(r) /\ requests[r].outcome.k = "rejected") =>
        LET q == requests[r]
        IN  /\ Len(q.calls) = 1
            /\ q.pc = "done" =>
                 /\ Len(q.responses) = 1
                 /\ q.responses[1].http = 500
                 /\ q.responses[1].success = FALSE
                 /\ q.responses[1].error = q.outcome.error.message
                 /\ q.responses[1].code =
                      IF q.outcome.error.code.t = "undefined"
                      THEN Str(<<"UNKNOWN_ERROR">>)
                      ELSE q.outcome.error.code

\* C7: on the test endpoint an absent `to` is answered 400 with no provider
\* call; any other `to` leads to exactly one provider call with that `to`
\* unmodified and the fixed message, answered 200 with the provider's sid if
\* it succeeds and 500 if it fails.
C7_TestEndpointAbsentOnly ==
    \A r \in Reqs : OnTest(r) =>
        LET q == requests[r]
        IN  IF q.body.to.t = "undefined"
            THEN /\ Len(q.responses) = 1
                 /\ q.responses[1].http = 400
                 /\ q.calls = <<>>
            ELSE /\ Len(q.calls) = 1
                 /\ q.calls[1].to = q.body.to
                 /\ q.calls[1].body = testMessage

\* C7 as amended: the 400 answer without a provider call is also given when
\* `to` is present but empty.
C7_TestEndpoint ==
    \A r \in Reqs : OnTest(r) =>
        LET q == requests[r]
        IN  IF AbsentOrEmpty(q.body.to)
            THEN /\ Len(q.responses) = 1
                 /\ q.responses[1].http = 400
                 /\ q.responses[1].success = FALSE
                 /\ q.calls = <<>>
            ELSE /\ Len(q.calls) = 1
                 /\ q.calls[1].to = q.body.to
                 /\ q.calls[1].body = testMessage
                 /\ q.calls[1].from = twilioPhoneNumber
                 /\ q.pc = "done" =>
                      /\ Len(q.responses) = 1
                      /\ IF q.outcome.k = "resolved"
                         THEN /\ q.responses[1].http = 200
                              /\ q.responses[1].success = TRUE
                              /\ q.responses[1].messageSid = q.outcome.sid
                         ELSE /\ q.responses[1].http = 500
                              /\ q.responses[1].success = FALSE
                              /\ q.responses[1].error = q.outcome.error.message

C7_Witness ==
    \E r1, r2 \in Reqs :
        /\ OnTest(r1) /\ OnTest(r2)
        /\ requests[r1].body.to.t = "string"
        /\ requests[r1].body.to.s = <<>>
        /\ requests[r1].responses # <<>>
        /\ requests[r2].body.to.t = "number"
        /\ requests[r2].pc = "done"
        /\ requests[r2].outcome.k = "resolved"

OwnCalls(r) ==
    LET q == requests[r]
    IN  IF OnEmergency(r) /\ ~MissingFields(q.body) /\ q.body.to.t = "string"
        THEN << EmergencyCallArgs(q.body) >>
        ELSE IF OnTest(r) /\ ~MissingTo(q.body)
        THEN << TestCallArgs(q.body) >>
        ELSE <<>>

\* the responses that the body of the request in slot r and the outcome of
\* its own provider call determine
OwnResponses(r) ==
    LET q == requests[r]
    IN  IF q.pc # "done" THEN <<>>
        ELSE IF OnEmergency(r)
        THEN IF MissingFields(q.body) THEN << MissingFieldsResponse >>
             ELSE IF OwnCalls(r) = <<>> THEN << EmergencyCatch(ReplaceTypeError) >>
             ELSE IF q.outcome.k = "resolved"
                  THEN << EmergencySuccess(q.outcome, OwnCalls(r)[1]) >>
                  ELSE << EmergencyCatch(q.outcome.error) >>
        ELSE IF MissingTo(q.body) THEN << MissingToResponse >>
             ELSE IF q.outcome.k = "resolved"
                  THEN << TestSuccess(q.outcome) >>
                  ELSE << TestCatch(q.outcome.error) >>

\* C9: under any interleaving each request is answered at most once, its
\* provider call and its answer are those its own body and the outcome of its
\* own provider call determine, an answered request is never touched again,
\* and while the process runs every request whose provider call has settled
\* is eventually answered.
C9_Independent ==
    /\ [](\A r \in Reqs :
            /\ Len(requests[r].responses) <= 1
            /\ requests[r].calls = OwnCalls(r)
            /\ requests[r].responses = OwnResponses(r))
    /\ [][\A r \in Reqs :
            requests[r].responses # <<>> => requests'[r] = requests[r]]_vars
    /\ \A r \in Reqs :
            (requests[r].pc = "settled") ~>
                (Len(requests[r].responses) = 1 \/ proc = "exited")

C9_Witness ==
    /\ proc = "running"
    /\ \E r1, r2 \in Reqs :
         /\ requests[r1].pc = "done" /\ requests[r2].pc = "done"
         /\ requests[r1].outcome.k = "resolved"
         /\ requests[r2].outcome.k = "rejected"
         /\ requests[r1].endpoint # requests[r2].endpoint
         /\ requests[r1].responses # requests[r2].responses

\* C10: on the emergency endpoint a 400 is given only to missing or empty
\* input and without a provider call, a 500 only after a provider call was
\* made and failed, and success=true exactly when the provider returned an
\* identifier.
C10_TwoKinds ==
    \A r \in Reqs : (OnEmergency(r) /\ requests[r].responses # <<>>) =>
        LET q == requests[r]
            resp == q.responses[1]
        IN  /\ resp.http \in {200, 400, 500}
            /\ resp.http = 400 =>
                 /\ AbsentOrEmpty(q.body.to) \/ AbsentOrEmpty(q.body.message)
                 /\ q.calls = <<>>
            /\ resp.http = 500 =>
                 /\ Len(q.calls) = 1
                 /\ q.outcome.k = "rejected"
            /\ resp.success <=> q.outcome.k = "resolved"

====
